---- MODULE Spec2Model ----
(***************************************************************************)
(* A model of collect_code.py: the command line tool main() that walks the *)
(* root directories given on the command line, collects the files that     *)
(* pass its filters with collect_files() and writes the joined text to     *)
(* collected_code.txt.                                                     *)
(*                                                                         *)
(* One behaviour is one run of main().  The directory tree, the location   *)
(* of the script and the set of unreadable files are the environment; they *)
(* are fixed for a run.  collect_files() is modelled step by step: one     *)
(* step per directory that os.walk yields and per file that is examined,   *)
(* opened and read.                                                        *)
(***************************************************************************)
EXTENDS Integers, Sequences, FiniteSets, TLC

VARIABLES
    folders,            \* args.folders: the root arguments, in order
    exclude,            \* args.exclude: the --exclude directory names
    all_files,          \* args.all_files
    exclude_langs,      \* the value of an --exclude-langs option on the command line
    script,             \* Path(__file__).resolve(): where the tool itself lies
    unreadable,         \* the files whose open() or read() fails
    cwd,                \* os.getcwd(): the directory the output file goes to
    prior_output,       \* a collected_code.txt of an earlier run lies in cwd
    unlistable,         \* the directories whose listing (scandir) fails
    include_extensions, \* the allow-list the caller asks for (tests, spec)
    exclude_extensions, \* the deny-list the caller asks for (tests, spec)
    pc,                 \* position of the run
    exclude_files,      \* main's local exclude_files
    exclude_dirs,       \* main's local exclude_dirs
    i,                  \* index of the folder the loop of main is at
    folder_path,        \* collect_files' folder_path
    stack,              \* the directories os.walk has still to yield
    root,               \* the directory os.walk yielded last
    files_left,         \* the files of root not yet examined
    file_path,          \* the file being read
    handle,             \* the open file handles
    output_parts,       \* collect_files' output_parts
    output_content,     \* main's output_content
    log,                \* what the logger emitted (level INFO and above)
    opened,             \* every open() for reading that was attempted
    outfile             \* collected_code.txt

vars == << folders, exclude, all_files, exclude_langs, script, unreadable, cwd,
           prior_output, unlistable, include_extensions,
           exclude_extensions, pc, exclude_files, exclude_dirs, i, folder_path,
           stack, root, files_left, file_path, handle, output_parts,
           output_content, log, opened, outfile >>

env == << folders, exclude, all_files, exclude_langs, script, unreadable, cwd,
           prior_output, unlistable, include_extensions,
          exclude_extensions >>

frame == << folder_path, stack, root, files_left, file_path, handle, output_parts >>

(***************************************************************************)
(* Bounds.                                                                 *)
(***************************************************************************)
MaxFolders == 2

(***************************************************************************)
(* The environment: a directory tree in the enumeration order of os.walk.  *)
(* A path is the sequence of its components.                               *)
(***************************************************************************)
Tree ==
    (<<"proj">> :> [dirs  |-> <<"sub", "build">>,
                    files |-> <<"a.py", "Test.PY", "b.java", "c.txt", "collect_code.py">>])
 @@ (<<"proj", "sub">> :> [dirs  |-> <<"venv", "deep">>,
                           files |-> <<"collect_code.py">>])
 @@ (<<"proj", "sub", "venv">> :> [dirs |-> <<>>, files |-> <<"e.py">>])
 @@ (<<"proj", "sub", "deep">> :> [dirs |-> <<>>, files |-> <<"d.py">>])
 @@ (<<"proj", "build">> :> [dirs |-> <<>>, files |-> <<"out.o", "g.py", "a.py">>])

OUTPUT_NAME == "collected_code.txt"

\* The files os.walk lists in the directory d: those of the tree and, in the
\* working directory, the output file an earlier run left.
Files(d) ==
    Tree[d].files \o (IF prior_output /\ d = cwd THEN <<OUTPUT_NAME>> ELSE <<>>)

\* A Python str as the sequence of its characters.
Chars ==
    ("a.py" :> <<"a", ".", "p", "y">>)
 @@ ("Test.PY" :> <<"T", "e", "s", "t", ".", "P", "Y">>)
 @@ ("b.java" :> <<"b", ".", "j", "a", "v", "a">>)
 @@ ("c.txt" :> <<"c", ".", "t", "x", "t">>)
 @@ ("collect_code.py" :> <<"c", "o", "l", "l", "e", "c", "t", "_", "c", "o", "d", "e", ".", "p", "y">>)
 @@ ("e.py" :> <<"e", ".", "p", "y">>)
 @@ ("d.py" :> <<"d", ".", "p", "y">>)
 @@ ("out.o" :> <<"o", "u", "t", ".", "o">>)
 @@ ("g.py" :> <<"g", ".", "p", "y">>)
 @@ ("collected_code.txt" :> <<"c", "o", "l", "l", "e", "c", "t", "e", "d", "_", "c", "o", "d", "e",
                               ".", "t", "x", "t">>)

\* What f.read() returns for a readable file.
Content ==
    ("a.py" :> "x") @@ ("Test.PY" :> "uppercase py") @@ ("b.java" :> "y")
 @@ ("c.txt" :> "z") @@ ("collect_code.py" :> "import os") @@ ("e.py" :> "e")
 @@ ("d.py" :> "d") @@ ("out.o" :> "binary") @@ ("g.py" :> "g")
 @@ ("collected_code.txt" :> "old output")

\* collected_code.txt as an earlier run left it, and as it is when the run
\* starts.
PriorData == <<[header |-> <<"old", "old.py">>, content |-> <<"old output">>]>>

PriorOutfile ==
    IF prior_output THEN [exists |-> TRUE, data |-> PriorData]
    ELSE [exists |-> FALSE, data |-> <<>>]

\* The root arguments a run may be given, and Path(folder).resolve() of each.
FolderArgs == {"proj", "proj/build", "missing", "proj/a.py"}

Resolve(folder) ==
    CASE folder = "proj"       -> <<"proj">>
      [] folder = "proj/build" -> <<"proj", "build">>
      [] folder = "missing"    -> <<"missing">>
      [] folder = "proj/a.py"  -> <<"proj", "a.py">>

\* Path.is_dir()
IsDir(path) == path \in DOMAIN Tree

\* Path.name
Name(path) == path[Len(path)]

DEFAULT_EXCLUDE_DIRS == {".idea", ".venv", "venv", "__pycache__", ".env"}

\* The allow-list the tests pass as collect_code.DEFAULT_EXTENSIONS.
DEFAULT_EXTENSIONS ==
    { <<".", "p", "y">>, <<".", "j", "a", "v", "a">>, <<".", "c">>,
      <<".", "c", "p", "p">>, <<".", "h">>, <<".", "h", "p", "p">> }

\* str.endswith
EndsWith(s, suffix) ==
    LET n == Len(Chars[s])
        m == Len(suffix)
    IN  m <= n /\ SubSeq(Chars[s], n - m + 1, n) = suffix

RECURSIVE Join(_)
\* "".join(parts)
Join(parts) == IF parts = <<>> THEN <<>> ELSE Head(parts) \o Join(Tail(parts))

\* A slip that rebinds dirs instead of assigning to dirs[:]: os.walk sees
\* the unfiltered list.
PruneDirsNone(dirs, excl) == dirs
\* dirs[:] = [d for d in dirs if d not in exclude_dirs]
PruneDirs(dirs, excl) == SelectSeq(dirs, LAMBDA d : d \notin excl)

\* not (not all_files and not file.endswith(".py"))
ExtOk(file, all) == all \/ EndsWith(file, <<".", "p", "y">>)

\* A slip that compares file names instead of paths.
NotExcludedByName(path, excl) == \A p \in excl : Name(p) # Name(path)
\* not (file_path in exclude_files)
NotExcluded(path, excl) == path \notin excl

\* file_path.relative_to(folder_path)
RelativeTo(path, base) == SubSeq(path, Len(base) + 1, Len(path))

\* A slip: the header is the path from the topmost ancestor, shared by the
\* roots, instead of the root's name and the path relative to the root.
RecordFromTop(base, path, content) == [header |-> path, content |-> content]

\* f"[{folder_path.name}/{rel_path}]\n{content}\n\n": the parts of a record,
\* the header as the components of folder_path.name / rel_path.
Record(base, path, content) ==
    [header |-> <<Name(base)>> \o RelativeTo(path, base), content |-> content]

RECURSIVE Slashed(_)
\* str() of a relative path: its components with "/" between them.
Slashed(components) ==
    IF Len(components) <= 1 THEN components
    ELSE <<Head(components), "/">> \o Slashed(Tail(components))

\* The characters the f-string of a record puts into the text.
Render(rec) == <<"[">> \o Slashed(rec.header) \o <<"]", "\n">> \o rec.content \o <<"\n", "\n">>

\* f"<<Error reading file: {e}>>"
Placeholder(e) == <<"<<Error reading file: ", e, ">>">>

NoPath == <<>>

(***************************************************************************)
(* Init: the command line and the environment of one run.                  *)
(***************************************************************************)
FolderSeqs == UNION {[1..n -> FolderArgs] : n \in 0..MaxFolders}

\* The command line carries no --exclude-langs option, or one with one of
\* these values (the values of the tests).
NoLangs == "<absent>"

LangValues == {"py,java", ".cpp,.h", "py,  , java  "}

ScriptPlaces == {<<"tool", "collect_code.py">>, <<"proj", "collect_code.py">>,
                 <<"proj", "sub", "collect_code.py">>}

\* The sets of unreadable files: the path, whether open() ("open") or
\* f.read() ("read") raises, and the text of the exception.
Unreadables ==
    { {},
      {[path |-> <<"proj", "a.py">>, at |-> "open", e |-> "Permission denied"]},
      {[path |-> <<"proj", "sub", "collect_code.py">>, at |-> "read", e |-> "invalid start byte"]} }

\* Where the run is started and what it finds there.
Environments ==
    { [cwd |-> <<"tool">>, prior_output |-> FALSE, unlistable |-> {}],
      [cwd |-> <<"proj">>, prior_output |-> TRUE, unlistable |-> {}],
      [cwd |-> <<"tool">>, prior_output |-> FALSE, unlistable |-> {<<"proj", "sub">>}] }

Fails(path, at) == \E u \in unreadable : u.path = path /\ u.at = at
ErrorOf(path) == (CHOOSE u \in unreadable : u.path = path).e

Init ==
    /\ folders \in FolderSeqs
    /\ exclude \in {{}, {"build"}}
    /\ all_files \in BOOLEAN
    /\ exclude_langs \in {NoLangs} \cup LangValues
    /\ script \in ScriptPlaces
    /\ unreadable \in Unreadables
    /\ \E e \in Environments :
          /\ cwd = e.cwd
          /\ prior_output = e.prior_output
          /\ unlistable = e.unlistable
    /\ include_extensions \in {DEFAULT_EXTENSIONS}
    /\ exclude_extensions \in {{}, {<<".", "p", "y">>}, {<<".", "t", "x", "t">>}}
    /\ pc = "parse"
    /\ exclude_files = {}
    /\ exclude_dirs = {}
    /\ i = 1
    /\ folder_path = NoPath
    /\ stack = <<>>
    /\ root = NoPath
    /\ files_left = <<>>
    /\ file_path = NoPath
    /\ handle = {}
    /\ output_parts = <<>>
    /\ output_content = <<>>
    /\ log = <<>>
    /\ opened = <<>>
    /\ outfile = PriorOutfile

(***************************************************************************)
(* main(), up to the loop over the folders.                                *)
(***************************************************************************)
\* The options the parser of main declares besides the positional folders.
KnownOptions == {"--exclude", "--all-files"}

\* parser.parse_args(): folders has nargs="+", so an empty list is a usage
\* error, and so is an option the parser does not declare (SystemExit(2));
\* otherwise main sets up its locals.
Parse ==
    /\ pc = "parse"
    /\ IF folders = <<>> \/ (exclude_langs # NoLangs /\ "--exclude-langs" \notin KnownOptions)
       THEN /\ pc' = "usage_error"
            /\ UNCHANGED << exclude_files, exclude_dirs, log >>
       ELSE /\ pc' = "loop"
            /\ exclude_files' = {script}
            /\ exclude_dirs' = DEFAULT_EXCLUDE_DIRS \cup exclude
            /\ log' = Append(log, [level |-> "INFO", msg |-> "Starting code collection",
                                   about |-> <<>>])
    /\ UNCHANGED << env, i, frame, output_content, opened, outfile >>

\* A slip: break instead of continue at a root that is not a directory.
SkipInvalidRootBreak ==
    /\ pc = "loop"
    /\ i <= Len(folders)
    /\ ~IsDir(Resolve(folders[i]))
    /\ folder_path' = Resolve(folders[i])
    /\ log' = Append(log, [level |-> "ERROR", msg |-> "is not a directory, skipping",
                           about |-> folder_path'])
    /\ i' = Len(folders) + 1
    /\ UNCHANGED << env, pc, exclude_files, exclude_dirs, stack, root, files_left,
                    file_path, handle, output_parts, output_content, opened, outfile >>

\* if not folder_path.is_dir(): logger.error(...); continue
SkipInvalidRoot ==
    /\ pc = "loop"
    /\ i <= Len(folders)
    /\ ~IsDir(Resolve(folders[i]))
    /\ folder_path' = Resolve(folders[i])
    /\ log' = Append(log, [level |-> "ERROR", msg |-> "is not a directory, skipping",
                           about |-> folder_path'])
    /\ i' = i + 1
    /\ UNCHANGED << env, pc, exclude_files, exclude_dirs, stack, root, files_left,
                    file_path, handle, output_parts, output_content, opened, outfile >>

\* A slip: output_parts outlives the call (a list shared by the calls), so a
\* later call starts with the parts of the earlier ones.
CallCollectNoReset ==
    /\ pc = "loop"
    /\ i <= Len(folders)
    /\ IsDir(Resolve(folders[i]))
    /\ folder_path' = Resolve(folders[i])
    /\ log' = Append(log, [level |-> "INFO", msg |-> "Processing directory",
                           about |-> folder_path'])
    /\ stack' = <<folder_path'>>
    /\ root' = NoPath
    /\ files_left' = <<>>
    /\ pc' = "walk"
    /\ UNCHANGED << env, exclude_files, exclude_dirs, i, file_path, handle, output_parts,
                    output_content, opened, outfile >>

\* logger.info("Processing directory"); collect_files(folder_path, ...) is
\* entered: output_parts = [] and os.walk(folder_path) starts at the root.
CallCollect ==
    /\ pc = "loop"
    /\ i <= Len(folders)
    /\ IsDir(Resolve(folders[i]))
    /\ folder_path' = Resolve(folders[i])
    /\ log' = Append(log, [level |-> "INFO", msg |-> "Processing directory",
                           about |-> folder_path'])
    /\ output_parts' = <<>>
    /\ stack' = <<folder_path'>>
    /\ root' = NoPath
    /\ files_left' = <<>>
    /\ pc' = "walk"
    /\ UNCHANGED << env, exclude_files, exclude_dirs, i, file_path, handle,
                    output_content, opened, outfile >>

(***************************************************************************)
(* collect_files()                                                         *)
(***************************************************************************)
\* os.walk yields the next directory top-down; the loop body filters dirs
\* in place, and os.walk descends into what is left of dirs, in order,
\* before it goes on with the siblings of root.
WalkNext ==
    /\ pc = "walk"
    /\ stack # <<>>
    /\ Head(stack) \notin unlistable
    /\ root' = Head(stack)
    /\ LET kept == PruneDirs(Tree[root'].dirs, exclude_dirs)
       IN  stack' = [k \in 1..Len(kept) |-> Append(root', kept[k])] \o Tail(stack)
    /\ files_left' = Files(root')
    /\ pc' = "file"
    /\ UNCHANGED << env, exclude_files, exclude_dirs, i, folder_path, file_path, handle,
                    output_parts, output_content, log, opened, outfile >>

\* os.walk cannot list the next directory: no onerror is given, so os.walk
\* ignores the error, yields nothing for the directory and goes on.
WalkUnlistable ==
    /\ pc = "walk"
    /\ stack # <<>>
    /\ Head(stack) \in unlistable
    /\ stack' = Tail(stack)
    /\ UNCHANGED << env, pc, exclude_files, exclude_dirs, i, folder_path, root, files_left,
                    file_path, handle, output_parts, output_content, log, opened, outfile >>

\* for file in files: is exhausted
FilesDone ==
    /\ pc = "file"
    /\ files_left = <<>>
    /\ pc' = "walk"
    /\ UNCHANGED << env, exclude_files, exclude_dirs, i, frame, output_content, log,
                    opened, outfile >>

\* if not all_files and not file.endswith(".py"): continue
SkipByExtension ==
    /\ pc = "file"
    /\ files_left # <<>>
    /\ ~ExtOk(Head(files_left), all_files)
    /\ files_left' = Tail(files_left)
    /\ UNCHANGED << env, pc, exclude_files, exclude_dirs, i, folder_path, stack, root,
                    file_path, handle, output_parts, output_content, log, opened, outfile >>

\* if file_path in exclude_files: continue
SkipExcludedFile ==
    /\ pc = "file"
    /\ files_left # <<>>
    /\ ExtOk(Head(files_left), all_files)
    /\ ~NotExcluded(Append(root, Head(files_left)), exclude_files)
    /\ files_left' = Tail(files_left)
    /\ UNCHANGED << env, pc, exclude_files, exclude_dirs, i, folder_path, stack, root,
                    file_path, handle, output_parts, output_content, log, opened, outfile >>

\* open(file_path, "r", encoding="utf-8") succeeds
OpenFile ==
    /\ pc = "file"
    /\ files_left # <<>>
    /\ ExtOk(Head(files_left), all_files)
    /\ NotExcluded(Append(root, Head(files_left)), exclude_files)
    /\ file_path' = Append(root, Head(files_left))
    /\ ~Fails(file_path', "open")
    /\ opened' = Append(opened, [folder |-> folder_path, file |-> file_path'])
    /\ handle' = handle \cup {file_path'}
    /\ pc' = "read"
    /\ UNCHANGED << env, exclude_files, exclude_dirs, i, folder_path, stack, root,
                    files_left, output_parts, output_content, log, outfile >>

\* A slip: the handler logs the failure and emits no record for the file.
OpenFailsNoRecord ==
    /\ pc = "file"
    /\ files_left # <<>>
    /\ ExtOk(Head(files_left), all_files)
    /\ NotExcluded(Append(root, Head(files_left)), exclude_files)
    /\ file_path' = Append(root, Head(files_left))
    /\ Fails(file_path', "open")
    /\ opened' = Append(opened, [folder |-> folder_path, file |-> file_path'])
    /\ log' = Append(log, [level |-> "WARNING", msg |-> "Failed to read file",
                           about |-> file_path'])
    /\ files_left' = Tail(files_left)
    /\ UNCHANGED << env, pc, exclude_files, exclude_dirs, i, folder_path, stack, root,
                    handle, output_parts, output_content, outfile >>

\* open() raises: except Exception logs a warning, the content is the
\* placeholder, and the record is appended.
OpenFails ==
    /\ pc = "file"
    /\ files_left # <<>>
    /\ ExtOk(Head(files_left), all_files)
    /\ NotExcluded(Append(root, Head(files_left)), exclude_files)
    /\ file_path' = Append(root, Head(files_left))
    /\ Fails(file_path', "open")
    /\ opened' = Append(opened, [folder |-> folder_path, file |-> file_path'])
    /\ log' = Append(log, [level |-> "WARNING", msg |-> "Failed to read file",
                           about |-> file_path'])
    /\ output_parts' = Append(output_parts,
                              <<Record(folder_path, file_path', Placeholder(ErrorOf(file_path')))>>)
    /\ files_left' = Tail(files_left)
    /\ UNCHANGED << env, pc, exclude_files, exclude_dirs, i, folder_path, stack, root,
                    handle, output_content, outfile >>

\* content = f.read() succeeds; the with block closes f; the record is
\* appended.
ReadFile ==
    /\ pc = "read"
    /\ ~Fails(file_path, "read")
    /\ handle' = handle \ {file_path}
    /\ output_parts' = Append(output_parts,
                              <<Record(folder_path, file_path, <<Content[Name(file_path)]>>)>>)
    /\ files_left' = Tail(files_left)
    /\ pc' = "file"
    /\ UNCHANGED << env, exclude_files, exclude_dirs, i, folder_path, stack, root,
                    file_path, output_content, log, opened, outfile >>

\* A slip: the file is opened without a with block and is not closed when
\* f.read() raises.
ReadFailsLeak ==
    /\ pc = "read"
    /\ Fails(file_path, "read")
    /\ log' = Append(log, [level |-> "WARNING", msg |-> "Failed to read file",
                           about |-> file_path])
    /\ output_parts' = Append(output_parts,
                              <<Record(folder_path, file_path, Placeholder(ErrorOf(file_path)))>>)
    /\ files_left' = Tail(files_left)
    /\ pc' = "file"
    /\ UNCHANGED << env, exclude_files, exclude_dirs, i, folder_path, stack, root,
                    file_path, handle, output_content, opened, outfile >>

\* f.read() raises: the with block closes f, then as for a failing open().
ReadFails ==
    /\ pc = "read"
    /\ Fails(file_path, "read")
    /\ handle' = handle \ {file_path}
    /\ log' = Append(log, [level |-> "WARNING", msg |-> "Failed to read file",
                           about |-> file_path])
    /\ output_parts' = Append(output_parts,
                              <<Record(folder_path, file_path, Placeholder(ErrorOf(file_path)))>>)
    /\ files_left' = Tail(files_left)
    /\ pc' = "file"
    /\ UNCHANGED << env, exclude_files, exclude_dirs, i, folder_path, stack, root,
                    file_path, output_content, opened, outfile >>

\* A slip: the texts of the roots are collected newest first.
ReturnCollectFront ==
    /\ pc = "walk"
    /\ stack = <<>>
    /\ output_content' = <<Join(output_parts)>> \o output_content
    /\ i' = i + 1
    /\ pc' = "loop"
    /\ UNCHANGED << env, exclude_files, exclude_dirs, frame, log, opened, outfile >>

\* os.walk is exhausted: return "".join(output_parts), which main appends
\* to output_content.
ReturnCollect ==
    /\ pc = "walk"
    /\ stack = <<>>
    /\ output_content' = Append(output_content, Join(output_parts))
    /\ i' = i + 1
    /\ pc' = "loop"
    /\ UNCHANGED << env, exclude_files, exclude_dirs, frame, log, opened, outfile >>

(***************************************************************************)
(* main(), after the loop.                                                 *)
(***************************************************************************)
\* for folder in args.folders: is exhausted
LoopDone ==
    /\ pc = "loop"
    /\ i > Len(folders)
    /\ pc' = "write"
    /\ UNCHANGED << env, exclude_files, exclude_dirs, i, frame, output_content, log,
                    opened, outfile >>

\* open(output_file, "w") and f.write("".join(output_content)) succeed
WriteOutput ==
    /\ pc = "write"
    /\ outfile' = [exists |-> TRUE, data |-> Join(output_content)]
    /\ log' = Append(log, [level |-> "INFO", msg |-> "Successfully created output file",
                           about |-> <<>>])
    /\ pc' = "done"
    /\ UNCHANGED << env, exclude_files, exclude_dirs, i, frame, output_content, opened >>

\* A slip: the handler logs the failure and does not re-raise.
WriteFailsSwallowed ==
    /\ pc = "write"
    /\ \E at \in {"open", "write"} :
         outfile' = IF at = "open" THEN outfile ELSE [exists |-> TRUE, data |-> <<>>]
    /\ log' = Append(log, [level |-> "ERROR", msg |-> "Failed to write output file",
                           about |-> <<>>])
    /\ pc' = "done"
    /\ UNCHANGED << env, exclude_files, exclude_dirs, i, frame, output_content, opened >>

\* open(output_file, "w") or f.write() raises: logger.error(...); raise.
\* A failing open leaves the file as it was, a failing write leaves it
\* truncated.
WriteFails ==
    /\ pc = "write"
    /\ \E at \in {"open", "write"} :
         outfile' = IF at = "open" THEN outfile ELSE [exists |-> TRUE, data |-> <<>>]
    /\ log' = Append(log, [level |-> "ERROR", msg |-> "Failed to write output file",
                           about |-> <<>>])
    /\ pc' = "raised"
    /\ UNCHANGED << env, exclude_files, exclude_dirs, i, frame, output_content, opened >>

Next ==
    \/ Parse
    \/ SkipInvalidRoot
    \/ CallCollect
    \/ WalkNext
    \/ WalkUnlistable
    \/ FilesDone
    \/ SkipByExtension
    \/ SkipExcludedFile
    \/ OpenFile
    \/ OpenFails
    \/ ReadFile
    \/ ReadFails
    \/ ReturnCollect
    \/ LoopDone
    \/ WriteOutput
    \/ WriteFails

Spec == Init /\ [][Next]_vars

(***************************************************************************)
(* Vocabulary of the properties.                                           *)
(***************************************************************************)
\* collect_files is about to return "".join(output_parts).
AtReturn == pc = "walk" /\ stack = <<>>

IsPrefix(a, b) == Len(a) <= Len(b) /\ SubSeq(b, 1, Len(a)) = a

\* The directory d, at or beneath base, can be reached from base by listing
\* directories.
Listable(base, d) ==
    /\ IsPrefix(base, d)
    /\ \A n \in Len(base)..Len(d) : SubSeq(d, 1, n) \notin unlistable

\* The files at or beneath the directory base that a listing can show.
FilesUnder(base) ==
    UNION { { [dir |-> d, name |-> Files(d)[k]] : k \in 1..Len(Files(d)) } :
            d \in {x \in DOMAIN Tree : Listable(base, x)} }

FilePath(f) == Append(f.dir, f.name)

\* The directory d lies in or beneath a directory below base whose bare name
\* is excluded.
PrunedBelow(base, d) == \E k \in (Len(base) + 1)..Len(d) : d[k] \in exclude_dirs

\* Some directory component of the path d, the root and its ancestors
\* included, is an excluded name.
HasExcludedComponent(d) == \E k \in 1..Len(d) : d[k] \in exclude_dirs

\* The header collect_files writes for path in a traversal of base.
HeaderOf(base, path) == <<base[Len(base)]>> \o SubSeq(path, Len(base) + 1, Len(path))

\* The positions of the records of path in text.
RecordsOf(text, base, path) == {k \in 1..Len(text) : text[k].header = HeaderOf(base, path)}

HasRecord(text, base, path) == RecordsOf(text, base, path) # {}

LowerChar(c) ==
    CASE c = "T" -> "t" [] c = "P" -> "p" [] c = "Y" -> "y" [] OTHER -> c

\* The extension of a file name: from its last dot to its end, lower-cased;
\* empty when the name has no dot.
LowerExt(name) ==
    LET cs   == Chars[name]
        dots == {k \in 1..Len(cs) : cs[k] = "."}
    IN  IF dots = {} THEN <<>>
        ELSE LET last == CHOOSE k \in dots : \A j \in dots : j <= k
             IN  [j \in 1..(Len(cs) - last + 1) |-> LowerChar(cs[last + j - 1])]

\* The file passes the filters collect_files applies to it.
Qualifies(base, f) ==
    /\ ~PrunedBelow(base, f.dir)
    /\ ExtOk(f.name, all_files)
    /\ FilePath(f) \notin exclude_files

ValidRoots == SelectSeq(folders, LAMBDA f : IsDir(Resolve(f)))

LogHas(level, msg, about) ==
    \E k \in 1..Len(log) : log[k] = [level |-> level, msg |-> msg, about |-> about]

(***************************************************************************)
(* C1.  Deny-list wins: a file whose lower-cased extension is in           *)
(* exclude_extensions never has a record in the text collect_files          *)
(* returns, whatever all_files and include_extensions are.                 *)
(***************************************************************************)
C1_DenyListWins ==
    AtReturn =>
        \A f \in FilesUnder(folder_path) :
            LowerExt(f.name) \in exclude_extensions
                => ~HasRecord(Join(output_parts), folder_path, FilePath(f))

(***************************************************************************)
(* C2.  Default mode: with all_files false, a file in a directory that is  *)
(* not pruned has a record if and only if its lower-cased extension is in  *)
(* include_extensions and not in exclude_extensions and its path is not in *)
(* exclude_files.                                                          *)
(***************************************************************************)
C2_DefaultMode ==
    (AtReturn /\ ~all_files) =>
        \A f \in FilesUnder(folder_path) :
            ~PrunedBelow(folder_path, f.dir) =>
                (HasRecord(Join(output_parts), folder_path, FilePath(f))
                    <=> /\ LowerExt(f.name) \in include_extensions
                        /\ LowerExt(f.name) \notin exclude_extensions
                        /\ FilePath(f) \notin exclude_files)

(***************************************************************************)
(* C3.  All-files mode: with all_files true, a file in a directory that is *)
(* not pruned has a record if and only if its extension is not in          *)
(* exclude_extensions and its path is not in exclude_files.                *)
(***************************************************************************)
C3_AllFilesMode ==
    (AtReturn /\ all_files) =>
        \A f \in FilesUnder(folder_path) :
            ~PrunedBelow(folder_path, f.dir) =>
                (HasRecord(Join(output_parts), folder_path, FilePath(f))
                    <=> /\ LowerExt(f.name) \notin exclude_extensions
                        /\ FilePath(f) \notin exclude_files)

(***************************************************************************)
(* C4.  Directory pruning, as the claim states it: no file whose path has  *)
(* a directory component, at any depth, that is in exclude_dirs is opened  *)
(* or has a record.                                                        *)
(***************************************************************************)
C4_NoExcludedComponent ==
    /\ \A k \in 1..Len(opened) :
           ~HasExcludedComponent(SubSeq(opened[k].file, 1, Len(opened[k].file) - 1))
    /\ \A k \in 1..Len(output_parts) : \A r \in 1..Len(output_parts[k]) :
           ~HasExcludedComponent(SubSeq(output_parts[k][r].header, 1,
                                        Len(output_parts[k][r].header) - 1))

(***************************************************************************)
(* C4, amended.  Directory pruning beneath the root: no file that lies in  *)
(* or beneath a directory below the traversal's root whose bare name is in *)
(* exclude_dirs is opened or has a record, in collect_files' parts, in     *)
(* main's texts or in the output file, and os.walk never yields such a     *)
(* directory nor holds one to descend into.  The root itself is traversed  *)
(* whatever its name.                                                      *)
(***************************************************************************)
RecordPruned(rec) == \E k \in 2..(Len(rec.header) - 1) : rec.header[k] \in exclude_dirs

C4_PrunedBeneathRoot ==
    /\ \A k \in 1..Len(opened) :
           ~PrunedBelow(opened[k].folder, SubSeq(opened[k].file, 1, Len(opened[k].file) - 1))
    /\ \A k \in 1..Len(output_parts) : \A r \in 1..Len(output_parts[k]) :
           ~RecordPruned(output_parts[k][r])
    /\ \A k \in 1..Len(output_content) : \A r \in 1..Len(output_content[k]) :
           ~RecordPruned(output_content[k][r])
    /\ \A r \in 1..Len(outfile.data) : ~RecordPruned(outfile.data[r])
    /\ pc \in {"file", "read"} => ~PrunedBelow(folder_path, root)
    /\ pc \in {"walk", "file", "read"} =>
           \A k \in 1..Len(stack) : ~PrunedBelow(folder_path, stack[k])

\* A traversal of proj with build excluded has passed the pruned build (depth
\* 1) and sub/venv (depth 2) and has read files of sub/deep.
C4_Witness ==
    /\ AtReturn
    /\ folder_path = <<"proj">>
    /\ "build" \in exclude_dirs
    /\ all_files
    /\ HasRecord(Join(output_parts), folder_path, <<"proj", "sub", "deep", "d.py">>)

(***************************************************************************)
(* C5.  File exclusion is absolute: a file whose path is in exclude_files  *)
(* has no record in the returned text, in either mode, and every other     *)
(* file that passes the directory and extension filters has one.           *)
(***************************************************************************)
C5_FileExclusionAbsolute ==
    AtReturn =>
        \A f \in FilesUnder(folder_path) :
            /\ FilePath(f) \in exclude_files
                   => ~HasRecord(Join(output_parts), folder_path, FilePath(f))
            /\ (/\ ~PrunedBelow(folder_path, f.dir)
                /\ ExtOk(f.name, all_files)
                /\ FilePath(f) \notin exclude_files)
                   => HasRecord(Join(output_parts), folder_path, FilePath(f))

\* The excluded script lies in the root and a file of the same name in a
\* subdirectory has its record.
C5_Witness ==
    /\ AtReturn
    /\ folder_path = <<"proj">>
    /\ exclude_files = {<<"proj", "collect_code.py">>}
    /\ ~HasRecord(Join(output_parts), folder_path, <<"proj", "collect_code.py">>)
    /\ HasRecord(Join(output_parts), folder_path, <<"proj", "sub", "collect_code.py">>)

(***************************************************************************)
(* C6.  Read failures are contained: when collect_files returns, every     *)
(* file that passes the filters has exactly one record with its normal     *)
(* header; the content is the placeholder with the error's text when its   *)
(* open or read failed and the file's content otherwise.  The run never    *)
(* ends with an exception while a traversal is under way.                  *)
(***************************************************************************)
C6_ReadFailuresContained ==
    /\ AtReturn =>
           \A f \in FilesUnder(folder_path) :
               Qualifies(folder_path, f) =>
                   /\ Cardinality(RecordsOf(Join(output_parts), folder_path, FilePath(f))) = 1
                   /\ \A k \in RecordsOf(Join(output_parts), folder_path, FilePath(f)) :
                          Join(output_parts)[k].content =
                              IF \E u \in unreadable : u.path = FilePath(f)
                              THEN <<"<<Error reading file: ",
                                     (CHOOSE u \in unreadable : u.path = FilePath(f)).e, ">>">>
                              ELSE <<Content[f.name]>>
    /\ pc = "raised" => i > Len(folders)
    /\ pc = "usage_error" => (opened = <<>> /\ output_parts = <<>>)

\* A placeholder record stands between two normal records.
C6_Witness ==
    /\ AtReturn
    /\ \E k \in 2..(Len(output_parts) - 1) :
          /\ output_parts[k][1].content[1] = "<<Error reading file: "
          /\ output_parts[k - 1][1].content = <<Content[output_parts[k - 1][1].header[Len(output_parts[k - 1][1].header)]]>>
          /\ output_parts[k + 1][1].content = <<Content[output_parts[k + 1][1].header[Len(output_parts[k + 1][1].header)]]>>

(***************************************************************************)
(* C7.  Case-insensitive extension matching: two files of one directory    *)
(* whose extensions are equal once lower-cased (Test.PY and a.py), neither *)
(* excluded by its path, get the same decision: both have a record in the  *)
(* returned text or neither has.                                           *)
(***************************************************************************)
C7_CaseInsensitive ==
    AtReturn =>
        \A f, g \in FilesUnder(folder_path) :
            (/\ f.dir = g.dir
             /\ ~PrunedBelow(folder_path, f.dir)
             /\ LowerExt(f.name) = LowerExt(g.name)
             /\ FilePath(f) \notin exclude_files
             /\ FilePath(g) \notin exclude_files)
                => (HasRecord(Join(output_parts), folder_path, FilePath(f))
                        <=> HasRecord(Join(output_parts), folder_path, FilePath(g)))

(***************************************************************************)
(* C8.  Invalid roots do not abort the run: once the loop over the roots   *)
(* has ended, every root that is not a directory has its error in the log  *)
(* and no text, main holds one text per valid root, and the text of the    *)
(* k-th valid root has a record for every file of that root that passes    *)
(* the filters, wherever the invalid roots stand; a successful write puts  *)
(* all of these records into the output file.                              *)
(***************************************************************************)
C8_InvalidRootsSkipped ==
    pc \in {"write", "done", "raised"} =>
        /\ \A j \in 1..Len(folders) :
               ~IsDir(Resolve(folders[j])) =>
                   /\ LogHas("ERROR", "is not a directory, skipping", Resolve(folders[j]))
                   /\ ~LogHas("INFO", "Processing directory", Resolve(folders[j]))
        /\ Len(output_content) = Len(ValidRoots)
        /\ \A k \in 1..Len(ValidRoots) :
               /\ LogHas("INFO", "Processing directory", Resolve(ValidRoots[k]))
               /\ \A f \in FilesUnder(Resolve(ValidRoots[k])) :
                      Qualifies(Resolve(ValidRoots[k]), f) =>
                          /\ HasRecord(output_content[k], Resolve(ValidRoots[k]), FilePath(f))
                          /\ pc = "done" =>
                                 HasRecord(outfile.data, Resolve(ValidRoots[k]), FilePath(f))

\* A run whose first root is invalid and whose second is valid has written
\* the records of the second.
C8_Witness ==
    /\ pc = "done"
    /\ Len(folders) = 2
    /\ ~IsDir(Resolve(folders[1]))
    /\ IsDir(Resolve(folders[2]))
    /\ outfile.data # <<>>

(***************************************************************************)
(* C9.  Output ordering: the text main writes is the concatenation of the  *)
(* texts collect_files returned, one per valid root in the order of the    *)
(* command line, and within each text the records stand in the top-down    *)
(* order of os.walk: the files of a directory in enumeration order, before *)
(* the files of its subdirectories, the subdirectories in enumeration      *)
(* order.                                                                  *)
(***************************************************************************)
IndexIn(seq, x) == CHOOSE k \in 1..Len(seq) : seq[k] = x

\* The file p is visited before the file q in a top-down walk of the tree.
VisitedBefore(p, q) ==
    LET dp == SubSeq(p, 1, Len(p) - 1)
        dq == SubSeq(q, 1, Len(q) - 1)
    IN  IF dp = dq
        THEN IndexIn(Files(dp), p[Len(p)]) < IndexIn(Files(dq), q[Len(q)])
        ELSE IF IsPrefix(dp, dq) THEN TRUE
        ELSE IF IsPrefix(dq, dp) THEN FALSE
        ELSE LET c == CHOOSE k \in 1..Len(dp) :
                          /\ dp[k] # dq[k]
                          /\ \A j \in 1..(k - 1) : dp[j] = dq[j]
                 parent == SubSeq(dp, 1, c - 1)
             IN  IndexIn(Tree[parent].dirs, dp[c]) < IndexIn(Tree[parent].dirs, dq[c])

\* The path of the file a record of a traversal of base is about.
PathOfRecord(base, rec) == base \o Tail(rec.header)

C9_OutputOrdering ==
    pc = "done" =>
        /\ Len(output_content) = Len(ValidRoots)
        /\ outfile.data = Join(output_content)
        /\ \A k \in 1..Len(ValidRoots) :
               LET base == Resolve(ValidRoots[k])
                   text == output_content[k]
               IN  /\ \A r \in 1..Len(text) : text[r].header[1] = base[Len(base)]
                   /\ \A r, t \in 1..Len(text) :
                          r < t => VisitedBefore(PathOfRecord(base, text[r]),
                                                 PathOfRecord(base, text[t]))

\* Two different valid roots, each with records, have been written, and the
\* second one has records from a directory two levels down.
C9_Witness ==
    /\ pc = "done"
    /\ folders = <<"proj/build", "proj">>
    /\ output_content[1] # <<>>
    /\ \E r \in 1..Len(output_content[2]) : Len(output_content[2][r].header) = 4
    /\ \E r \in 1..Len(output_content[2]) : output_content[2][r].header[2] = "build"

(***************************************************************************)
(* C10.  Write failure is the only fatal error, as the claim states it: a  *)
(* run of main ends with a failure only when writing the output file       *)
(* failed.                                                                 *)
(***************************************************************************)
WriteFailed == LogHas("ERROR", "Failed to write output file", <<>>)

C10_OnlyWriteFailureFatal ==
    pc \in {"raised", "usage_error"} => WriteFailed

(***************************************************************************)
(* C10, amended.  A failure to write the output file is logged and raised  *)
(* out of main, and a run that got past the argument parser ends with a    *)
(* failure only then; invalid roots and read failures never end it.  The   *)
(* other failing end is the parser's usage error for a command line        *)
(* without a root, before any root is looked at.                           *)
(***************************************************************************)
C10_WriteOrUsageOnlyFatal ==
    /\ pc = "raised" => (WriteFailed /\ log[Len(log)].msg = "Failed to write output file")
    /\ pc = "done" => (~WriteFailed /\ outfile = [exists |-> TRUE, data |-> Join(output_content)])
    /\ WriteFailed => pc = "raised"
    /\ pc = "usage_error" =>
           /\ folders = <<>> \/ exclude_langs # NoLangs
           /\ log = <<>> /\ opened = <<>> /\ outfile = PriorOutfile

\* A run with an invalid root and an unreadable file got to the write step,
\* failed there and raised.
C10_Witness ==
    /\ pc = "raised"
    /\ \E k \in 1..Len(log) : log[k].msg = "is not a directory, skipping"
    /\ \E k \in 1..Len(log) : log[k].msg = "Failed to read file"
    /\ WriteFailed

(***************************************************************************)
(* C11.  Extension-list normalization: a run whose command line carries    *)
(* --exclude-langs=V goes on to call collect_files, and the call passes    *)
(* as exclude_extensions the set made from V by splitting at the commas,   *)
(* trimming the blanks around each entry, dropping the empty entries,      *)
(* lower-casing and putting a dot before the entries that have none.       *)
(***************************************************************************)
\* The characters of the values of --exclude-langs.
LangChars ==
    ("py,java" :> <<"p", "y", ",", "j", "a", "v", "a">>)
 @@ (".cpp,.h" :> <<".", "c", "p", "p", ",", ".", "h">>)
 @@ ("py,  , java  " :> <<"p", "y", ",", " ", " ", ",", " ", "j", "a", "v", "a", " ", " ">>)

RECURSIVE SplitAtCommas(_)
\* The entries of a comma-separated string, as a set.
SplitAtCommas(cs) ==
    LET commas == {k \in 1..Len(cs) : cs[k] = ","}
    IN  IF commas = {} THEN {cs}
        ELSE LET c == CHOOSE k \in commas : \A j \in commas : k <= j
             IN  {SubSeq(cs, 1, c - 1)} \cup SplitAtCommas(SubSeq(cs, c + 1, Len(cs)))

RECURSIVE Trim(_)
\* An entry without the blanks around it.
Trim(cs) ==
    IF cs = <<>> THEN cs
    ELSE IF cs[1] = " " THEN Trim(Tail(cs))
    ELSE IF cs[Len(cs)] = " " THEN Trim(SubSeq(cs, 1, Len(cs) - 1))
    ELSE cs

\* The deny-list the claim has main make of the value of --exclude-langs.
NormalizedLangs(cs) ==
    { LET e == [k \in 1..Len(t) |-> LowerChar(t[k])]
      IN  IF e[1] = "." THEN e ELSE <<".">> \o e :
      t \in {Trim(x) : x \in SplitAtCommas(cs)} \ {<<>>} }

\* The arguments main passes to collect_files.
CallArgs ==
    [folder_path |-> folder_path, exclude_files |-> exclude_files,
     exclude_dirs |-> exclude_dirs, all_files |-> all_files]

C11_ExcludeLangsNormalized ==
    exclude_langs # NoLangs =>
        /\ pc # "usage_error"
        /\ pc \in {"walk", "file", "read"} =>
               /\ "exclude_extensions" \in DOMAIN CallArgs
               /\ CallArgs["exclude_extensions"] = NormalizedLangs(LangChars[exclude_langs])

\* The normalization of the claim on its own examples.
C11_Examples ==
    /\ NormalizedLangs(LangChars["py,java"]) = {<<".", "p", "y">>, <<".", "j", "a", "v", "a">>}
    /\ NormalizedLangs(LangChars["py,  , java  "]) = {<<".", "p", "y">>, <<".", "j", "a", "v", "a">>}
    /\ NormalizedLangs(LangChars[".cpp,.h"]) = {<<".", "c", "p", "p">>, <<".", "h">>}

(***************************************************************************)
(* C12.  Record format and per-root headers: in the text collect_files     *)
(* returns, the record of every file that passes the filters reads         *)
(* "[", the root's own last path component, "/", the file's path relative  *)
(* to that root, "]", a newline, the content or the error placeholder, and *)
(* a blank line; and every record of the text is the record of such a      *)
(* file.                                                                   *)
(***************************************************************************)
RECURSIVE WithSlashes(_)
WithSlashes(names) ==
    IF names = <<>> THEN <<>> ELSE <<"/", Head(names)>> \o WithSlashes(Tail(names))

\* The text of the record of the file f in a traversal of base.
ExpectedRecord(base, f) ==
    <<"[", base[Len(base)]>>
        \o WithSlashes(SubSeq(f.dir, Len(base) + 1, Len(f.dir)) \o <<f.name>>)
        \o <<"]", "\n">>
        \o (IF \E u \in unreadable : u.path = FilePath(f)
            THEN <<"<<Error reading file: ",
                   (CHOOSE u \in unreadable : u.path = FilePath(f)).e, ">>">>
            ELSE <<Content[f.name]>>)
        \o <<"\n", "\n">>

C12_RecordFormat ==
    AtReturn =>
        LET text == Join(output_parts)
            good == {f \in FilesUnder(folder_path) : Qualifies(folder_path, f)}
        IN  /\ \A f \in good :
                   \E k \in 1..Len(text) : Render(text[k]) = ExpectedRecord(folder_path, f)
            /\ \A k \in 1..Len(text) :
                   \E f \in good : Render(text[k]) = ExpectedRecord(folder_path, f)

\* The roots proj and proj/build both hold a.py: the written text has the
\* headers [proj/a.py] and [build/a.py], alike but for the root's name.
C12_Witness ==
    /\ pc = "done"
    /\ folders = <<"proj", "proj/build">>
    /\ \E r \in 1..Len(output_content[1]) : \E t \in 1..Len(output_content[2]) :
          /\ Render(output_content[1][r])[2] = "proj"
          /\ Render(output_content[2][t])[2] = "build"
          /\ SubSeq(Render(output_content[1][r]), 3, 5) = <<"/", "a.py", "]">>
          /\ SubSeq(Render(output_content[2][t]), 3, 5) = <<"/", "a.py", "]">>

(***************************************************************************)
(* C13.  Self-exclusion: the text collect_files returns has no record for  *)
(* the tool's own script file and none for a collected_code.txt that an    *)
(* earlier run left under the root, in either mode.                        *)
(***************************************************************************)
C13_SelfExclusion ==
    AtReturn =>
        /\ IsPrefix(folder_path, script) =>
               ~HasRecord(Join(output_parts), folder_path, script)
        /\ (prior_output /\ IsPrefix(folder_path, cwd)) =>
               ~HasRecord(Join(output_parts), folder_path, Append(cwd, OUTPUT_NAME))

(***************************************************************************)
(* C14.  Determinism: two calls of collect_files with the same arguments   *)
(* against the unchanged tree return the same text, character for          *)
(* character; and no call changes the file system: the output file is as   *)
(* the run found it until main writes it after the last call.              *)
(***************************************************************************)
\* The characters of a text.
TextOf(records) == Join([k \in 1..Len(records) |-> Render(records[k])])

C14_Deterministic ==
    /\ \A j, k \in 1..Len(output_content) :
           Resolve(ValidRoots[j]) = Resolve(ValidRoots[k])
               => TextOf(output_content[j]) = TextOf(output_content[k])
    /\ pc \notin {"done", "raised"} => outfile = PriorOutfile

\* The same root was collected twice, with a file that cannot be read in it.
C14_Witness ==
    /\ pc = "write"
    /\ folders = <<"proj", "proj">>
    /\ Len(output_content) = 2
    /\ \E r \in 1..Len(output_content[2]) :
          output_content[2][r].content[1] = "<<Error reading file: "

(***************************************************************************)
(* C15.  No silent drops: when the traversals are over, every error they   *)
(* met has left a trace in the log or in the output: every root that is    *)
(* not a directory, every file that passed the filters and could not be    *)
(* read, and every directory a traversal came to and could not list.       *)
(***************************************************************************)
\* Some log entry or some record of the texts is about the path p.
Traced(p) ==
    \/ \E k \in 1..Len(log) : log[k].about = p
    \/ \E k \in 1..Len(ValidRoots) :
          /\ k <= Len(output_content)
          /\ IsPrefix(Resolve(ValidRoots[k]), p)
          /\ HasRecord(output_content[k], Resolve(ValidRoots[k]), p)

C15_NoSilentDrops ==
    pc \in {"write", "done", "raised"} =>
        /\ \A j \in 1..Len(folders) :
               ~IsDir(Resolve(folders[j])) => Traced(Resolve(folders[j]))
        /\ \A k \in 1..Len(ValidRoots) :
               LET base == Resolve(ValidRoots[k])
               IN  /\ \A f \in FilesUnder(base) :
                          (Qualifies(base, f) /\ \E u \in unreadable : u.path = FilePath(f))
                              => Traced(FilePath(f))
                   /\ \A d \in unlistable :
                          (/\ IsPrefix(base, d)
                           /\ ~PrunedBelow(base, d)
                           /\ Listable(base, SubSeq(d, 1, Len(d) - 1)) \/ d = base)
                              => Traced(d)

(***************************************************************************)
(* C16.  File-handle scoping: at most one file handle is open at any time; *)
(* a handle is open only while its file is being read, and it is the       *)
(* handle of that file; it is released before the next file is examined,   *)
(* whether the read succeeded or failed, so none is open when              *)
(* collect_files returns or main goes on.                                  *)
(***************************************************************************)
C16_HandleScoped ==
    /\ Cardinality(handle) <= 1
    /\ pc = "read" => handle = {file_path}
    /\ pc # "read" => handle = {}

\* The read of an opened file has just failed: its warning is the last log
\* entry, and the traversal is back at the files with no handle open.
C16_Witness ==
    /\ pc = "file"
    /\ handle = {}
    /\ Fails(file_path, "read")
    /\ log # <<>>
    /\ log[Len(log)] = [level |-> "WARNING", msg |-> "Failed to read file", about |-> file_path]
    /\ \E k \in 1..Len(opened) : opened[k].file = file_path

====
